---- MODULE Spec2Model ----
(***************************************************************************)
(* Model of the NextEdge sport-player ingestion pipeline.                  *)
(*                                                                         *)
(* Nine specifications share this module:                                  *)
(*   Spec       the crawl orchestrator of scraper_api.py: the process-wide *)
(*              scraping_status dictionary, the crawl workers (startup     *)
(*              thread, scheduler job, background task of /start-scraping) *)
(*              and the /start-scraping and /stop-scraping handlers.       *)
(*   SpecStore  the players table and every insert_player that writes it.  *)
(*   SpecFetch  fetch_page with its retries and the fetched_urls ledger.   *)
(*   SpecFaults the crawl of one worker where every page, extraction and   *)
(*              insert may fail.                                           *)
(*   SpecLog    log_error alone, called again and again.                   *)
(*   SpecHeight the height normalizers and the position mapping applied to *)
(*              the texts of a roster row.                                 *)
(*   SpecAge    the two age computations applied to a date of birth.       *)
(*   SpecRugbyApi   the crawl of rugby_api.py and its status dictionary.   *)
(*   SpecFaultsFair SpecFaults with weak fairness of the worker's steps.   *)
(***************************************************************************)
EXTENDS Integers, Sequences, FiniteSets, TLC

VARIABLES
    scraping_status,  \* scraper_api.py:71-79, the process-wide status dictionary
    worker,           \* per worker thread: position in scrape_all_background and its locals
    ghost,            \* per worker: history of the run (stop seen, units started after it, exit path)
    up,               \* startup_event has run
    runs,             \* number of worker threads spawned so far; also the reading of datetime.now()
    response,         \* the last HTTP response of /start-scraping or /stop-scraping
    env,              \* the environment of the behaviour: thread slots, whether pages and inserts may fail
    players,          \* the players table, rows in insertion order
    now,              \* CURRENT_TIMESTAMP of the database, one tick per statement
    last,             \* the last insert_player call: writer, argument, result
    fetched_urls,     \* the fetched_urls table (the fetch ledger), rows in insertion order
    fetch,            \* the fetch_page call in progress or just returned, and its history
    rugby_logs,       \* the messages committed to the rugby_logs table by ReportError
    height,           \* the last height normalization: the scraped text, who normalized it, the result
    position,         \* the last position mapping of process_country: the scraped text and the result
    age,              \* the last age computation: date of birth, today, who computed it, the result
    rugby_api         \* rugby_api.py: its status dictionary and its crawl thread

crawlVars == <<scraping_status, worker, ghost, up, runs, response, env>>
storeVars == <<players, now, last>>
fetchVars == <<fetched_urls, fetch>>
logVars == <<rugby_logs>>
heightVars == <<height, position, age, rugby_api>>
vars == <<scraping_status, worker, ghost, up, runs, response, env, players, now, last,
          fetched_urls, fetch, rugby_logs, height, position,
          age, rugby_api>>

(***************************************************************************)
(* Bounds of the model.                                                    *)
(***************************************************************************)
MaxWorkers == 2     \* worker threads alive at the same time
MaxRuns == 2        \* worker threads spawned in one behaviour
MaxTeams == 1       \* team links an index page yields
MaxPlayers == 1     \* player links a team page yields
MaxUsTeams == 1     \* entries of us_teams walked (the list has 31)
MaxPages == 1       \* listing pages of rugbypass.com walked (max_pages is 5)
MaxAfter == 2       \* the count of units started after a stop saturates here
MaxFaultPages == 2  \* listing pages walked where pages and inserts may fail

Workers == 1..MaxWorkers

(***************************************************************************)
(* scraping_status and log_error (scraper_api.py).                         *)
(***************************************************************************)
Item(kind, k) == [kind |-> kind, k |-> k]

NoItem == Item("", 0)

ErrorCapacity == 10

InitialStatus ==
    [is_running |-> FALSE, processed |-> 0, current_sport |-> "",
     current_item |-> NoItem, total_items |-> 0, start_time |-> 0,
     errors |-> <<>>]

\* errors[-10:]
\* errors[:10] in place of errors[-10:]: the newest entries are dropped
FirstErrors(errs) ==
    IF Len(errs) > ErrorCapacity THEN SubSeq(errs, 1, ErrorCapacity) ELSE errs

LastErrors(errs) ==
    IF Len(errs) > ErrorCapacity
    THEN SubSeq(errs, Len(errs) - ErrorCapacity + 1, Len(errs))
    ELSE errs

\* log_error: the row goes to rugby_logs first; the status list is appended
\* only when that insert committed (dbok).
log_error(status, msg, dbok) ==
    IF dbok THEN [status EXCEPT !.errors = LastErrors(Append(@, msg))]
    ELSE status

\* GET /scraping-status returns a copy of the dictionary.
get_scraping_status == scraping_status

(***************************************************************************)
(* Worker threads.  The locals of scrape_all_background that are dead at a *)
(* position (loop counters of a loop that is over) are kept at 0.          *)
(***************************************************************************)
IdleWorker ==
    [pc |-> "idle", trigger |-> "none", driver |-> FALSE,
     n |-> 0, i |-> 0, m |-> 0, j |-> 0, c |-> 0, g |-> "men", page |-> 0]

\* event: the outcome of the unit the last step of the worker processed
NoGhost == [stopped |-> FALSE, after |-> 0, path |-> "none", event |-> "none"]

Executing(w) == worker[w].pc \notin {"idle", "queued"}

Active(w) == worker[w].pc # "idle"

\* threading.Thread(...).start(), scheduler job launch, background_tasks.add_task
Spawn(w, trig) ==
    /\ w <= env.slots
    /\ worker[w].pc = "idle"
    /\ runs < MaxRuns
    /\ runs' = runs + 1
    /\ worker' = [worker EXCEPT ![w] = [IdleWorker EXCEPT !.pc = "queued", !.trigger = trig]]
    /\ ghost' = [ghost EXCEPT ![w] = NoGhost]

\* A unit of work (top-level unit, team, player) is started by worker w and
\* ends with outcome ev.
StartUnit(w, ev) ==
    ghost' = [ghost EXCEPT ![w].after =
                               IF ghost[w].stopped /\ @ < MaxAfter THEN @ + 1 ELSE @,
                           ![w].event = ev]

\* The step of worker w ends with outcome ev without starting a unit.
Note(w, ev) == ghost' = [ghost EXCEPT ![w].event = ev]

\* The step of worker w processes no unit.
Quiet(w) == Note(w, "none")

\* The outcome of a player whose scrape and insert gave outcome.
Leaf(outcome) == IF outcome = "ok" THEN "upserted" ELSE outcome

Goto(w, label) == worker' = [worker EXCEPT ![w].pc = label]

\* The outcomes a page fetch or an insert may have in this environment.
Outcomes(all) == IF env.faults THEN all ELSE {"ok"}

\* Whether the rugby_logs insert of log_error commits.
LogOutcomes(failed) == IF failed THEN BOOLEAN ELSE {TRUE}

\* except Exception as e: log_error(f"Global scraping error: {e}") and on to finally
Raise(status, w, logok) ==
    /\ scraping_status' = log_error(status, "Global scraping error", logok)
    /\ worker' = [worker EXCEPT ![w].pc = "finally"]
    /\ ghost' = [ghost EXCEPT ![w].path = "exception", ![w].event = "fatal"]

\* scrape_all_background, lines 451-460: the reset of the status dictionary
Begin(w) ==
    /\ worker[w].pc = "queued"
    /\ scraping_status' =
           [is_running |-> TRUE, processed |-> 0, current_sport |-> "Initializing...",
            current_item |-> NoItem, total_items |-> 0, start_time |-> runs,
            errors |-> <<>>]
    /\ Goto(w, "init")
    /\ UNCHANGED <<ghost, up, runs, response, env, storeVars, fetchVars, logVars, heightVars>>

\* lines 462-467: init_db() and setup_driver(); either may raise
InitRun(w) ==
    /\ worker[w].pc = "init"
    /\ \E outcome \in {"ok", "db_unreachable", "no_driver"} :
       \E logok \in LogOutcomes(outcome # "ok") :
          IF outcome = "ok"
          THEN /\ worker' = [worker EXCEPT ![w].pc = "allrugby", ![w].driver = TRUE]
               /\ UNCHANGED <<scraping_status, ghost>>
          ELSE Raise(scraping_status, w, logok)
    /\ UNCHANGED <<up, runs, response, env, storeVars, fetchVars, logVars, heightVars>>

\* lines 568-575: the All.Rugby phase opens; get_all_rugby_team_urls logs and
\* returns [] when the index page fails
AllRugbyBegin(w) ==
    /\ worker[w].pc = "allrugby"
    /\ IF scraping_status.is_running
       THEN \E outcome \in Outcomes({"ok", "fetch_failed"}) :
            \E n \in 0..(IF outcome = "ok" THEN env.teams ELSE 0),
               logok \in LogOutcomes(outcome # "ok") :
               /\ scraping_status' =
                      [log_error(scraping_status, "Failed to get all.rugby team URLs",
                                 outcome # "ok" /\ logok)
                       EXCEPT !.current_sport = "Rugby",
                              !.current_item = Item("Initializing All.Rugby Scraper...", 0),
                              !.total_items = n]
               /\ worker' = [worker EXCEPT ![w].pc = "rugby_team", ![w].n = n, ![w].i = 0]
               /\ Note(w, outcome)
       ELSE /\ Goto(w, "usa")
            /\ UNCHANGED scraping_status
            /\ Quiet(w)
    /\ UNCHANGED <<up, runs, response, env, storeVars, fetchVars, logVars, heightVars>>

\* lines 577-585 and 600: one team of All.Rugby
AllRugbyTeam(w) ==
    /\ worker[w].pc = "rugby_team"
    /\ IF worker[w].i < worker[w].n /\ scraping_status.is_running
       THEN \E outcome \in Outcomes({"ok", "fetch_failed"}) :
            \E m \in 0..(IF outcome = "ok" THEN env.players ELSE 0),
               logok \in LogOutcomes(outcome # "ok") :
               /\ scraping_status' =
                      [log_error(scraping_status, "Failed to fetch all.rugby team players",
                                 outcome # "ok" /\ logok)
                       EXCEPT !.current_item = Item("Team (All.Rugby)", worker[w].i + 1)]
               /\ worker' = [worker EXCEPT ![w].pc = "rugby_player", ![w].m = m, ![w].j = 0]
               /\ StartUnit(w, outcome)
       ELSE \* the list is exhausted, or is_running is False: break
            /\ worker' = [worker EXCEPT ![w].pc = "usa", ![w].n = 0, ![w].i = 0]
            /\ UNCHANGED scraping_status
            /\ Quiet(w)
    /\ UNCHANGED <<up, runs, response, env, storeVars, fetchVars, logVars, heightVars>>

\* lines 587-600: one player of All.Rugby: scrape_all_rugby_player, insert_player
AllRugbyPlayer(w) ==
    /\ worker[w].pc = "rugby_player"
    /\ IF worker[w].j < worker[w].m /\ scraping_status.is_running
       THEN \E outcome \in Outcomes({"ok", "scrape_failed", "db_error"}) :
            \E logok \in LogOutcomes(outcome # "ok") :
               /\ scraping_status' =
                      [log_error(scraping_status,
                                 IF outcome = "db_error" THEN "DB Error inserting"
                                 ELSE "Failed to scrape all.rugby player",
                                 outcome # "ok" /\ logok)
                       EXCEPT !.current_item = Item("Player (All.Rugby)", worker[w].j + 1),
                              !.processed = IF outcome = "ok" THEN @ + 1 ELSE @]
               /\ worker' = [worker EXCEPT ![w].j = @ + 1]
               /\ StartUnit(w, Leaf(outcome))
       ELSE \* inner loop over, by exhaustion or break: sleep, next team
            /\ worker' = [worker EXCEPT ![w].pc = "rugby_team", ![w].i = @ + 1,
                                        ![w].m = 0, ![w].j = 0]
            /\ UNCHANGED scraping_status
            /\ Quiet(w)
    /\ UNCHANGED <<up, runs, response, env, storeVars, fetchVars, logVars, heightVars>>

\* lines 605-607: the BasketUSA phase opens
UsaBegin(w) ==
    /\ worker[w].pc = "usa"
    /\ IF scraping_status.is_running
       THEN /\ scraping_status' = [scraping_status EXCEPT !.current_sport = "Basketball"]
            /\ worker' = [worker EXCEPT ![w].pc = "usa_top", ![w].c = 0, ![w].g = "men"]
            /\ Quiet(w)
       ELSE /\ Goto(w, "rugbypass")
            /\ UNCHANGED scraping_status
            /\ Quiet(w)
    /\ UNCHANGED <<up, runs, response, env, storeVars, fetchVars, logVars, heightVars>>

\* lines 608-614: one entry of us_teams, men then women, and the head of
\* basketusa.process_country (get_teams, lines 440-442); a failed fetch_page
\* yields no team and is logged by basketusa.log_error, which does not touch
\* scraping_status
UsaTop(w) ==
    /\ worker[w].pc = "usa_top"
    /\ IF worker[w].c < env.usTeams /\ scraping_status.is_running
       THEN \E outcome \in Outcomes({"ok", "fetch_failed"}) :
            \E n \in 0..(IF outcome = "ok" THEN env.teams ELSE 0) :
               /\ scraping_status' =
                      [scraping_status EXCEPT
                          !.current_item = Item(IF worker[w].g = "men"
                                                THEN "(Men - USABasket)"
                                                ELSE "(Women - USABasket)", worker[w].c + 1)]
               /\ worker' = [worker EXCEPT ![w].pc = "usa_team", ![w].n = n, ![w].i = 0]
               /\ StartUnit(w, outcome)
       ELSE /\ worker' = [worker EXCEPT ![w].pc = "rugbypass", ![w].c = 0, ![w].g = "men"]
            /\ UNCHANGED scraping_status
            /\ Quiet(w)
    /\ UNCHANGED <<up, runs, response, env, storeVars, fetchVars, logVars, heightVars>>

\* basketusa.process_country, lines 444-446: one team (get_roster); the loop
\* does not read scraping_status['is_running']
UsaTeam(w) ==
    /\ worker[w].pc = "usa_team"
    /\ IF worker[w].i < worker[w].n
       THEN \E outcome \in Outcomes({"ok", "fetch_failed"}) :
            \E m \in 0..(IF outcome = "ok" THEN env.players ELSE 0) :
               /\ worker' = [worker EXCEPT ![w].pc = "usa_player", ![w].m = m, ![w].j = 0]
               /\ StartUnit(w, outcome)
       ELSE \* process_country returns: women after men, then the next entry
            /\ worker' = [worker EXCEPT
                             ![w].pc = "usa_top",
                             ![w].g = IF @ = "men" THEN "women" ELSE "men",
                             ![w].c = IF worker[w].g = "men" THEN @ ELSE @ + 1,
                             ![w].n = 0, ![w].i = 0]
            /\ Quiet(w)
    /\ UNCHANGED <<scraping_status, up, runs, response, env, storeVars, fetchVars, logVars, heightVars>>

\* basketusa.process_country, lines 448-478: one player; processed is
\* incremented when basketusa.insert_player returns True
UsaPlayer(w) ==
    /\ worker[w].pc = "usa_player"
    /\ IF worker[w].j < worker[w].m
       THEN \E outcome \in Outcomes({"ok", "no_player_url", "db_error"}) :
               /\ scraping_status' =
                      [scraping_status EXCEPT
                          !.processed = IF outcome = "ok" THEN @ + 1 ELSE @]
               /\ worker' = [worker EXCEPT ![w].j = @ + 1]
               /\ StartUnit(w, Leaf(outcome))
       ELSE /\ worker' = [worker EXCEPT ![w].pc = "usa_team", ![w].i = @ + 1,
                                        ![w].m = 0, ![w].j = 0]
            /\ UNCHANGED scraping_status
            /\ Quiet(w)
    /\ UNCHANGED <<up, runs, response, env, storeVars, fetchVars, logVars, heightVars>>

\* lines 618-621 and rugbypass.scrape_all_pages, lines 426-436: setup_driver()
\* is called outside the try block, so its failure reaches scrape_all_background
RugbyPassBegin(w) ==
    /\ worker[w].pc = "rugbypass"
    /\ IF scraping_status.is_running
       THEN \E outcome \in {"ok", "no_driver"} \cup Outcomes({"ok", "load_failed"}) :
            \E logok \in LogOutcomes(outcome = "no_driver") :
               IF outcome = "no_driver"
               THEN Raise([scraping_status EXCEPT !.current_sport = "Rugby"], w, logok)
               ELSE /\ scraping_status' = [scraping_status EXCEPT !.current_sport = "Rugby"]
                    /\ worker' = [worker EXCEPT
                                     ![w].pc = IF outcome = "ok" THEN "rp_page" ELSE "fix",
                                     ![w].page = IF outcome = "ok" THEN 1 ELSE 0]
                    /\ Note(w, outcome)
       ELSE /\ Goto(w, "fix")
            /\ UNCHANGED scraping_status
            /\ Quiet(w)
    /\ UNCHANGED <<up, runs, response, env, storeVars, fetchVars, logVars, heightVars>>

\* rugbypass.scrape_all_pages, lines 438-446: one listing page;
\* scrape_players_from_page returns [] when it fails, and a page without players
\* ends the walk
RugbyPassPage(w) ==
    /\ worker[w].pc = "rp_page"
    /\ \E outcome \in Outcomes({"ok", "page_failed"}) :
       \E m \in 0..(IF outcome = "ok" THEN env.players ELSE 0) :
          /\ worker' = [worker EXCEPT
                           ![w].pc = IF m = 0 THEN "fix" ELSE "rp_player",
                           ![w].page = IF m = 0 THEN 0 ELSE @,
                           ![w].m = m, ![w].j = 0]
          /\ StartUnit(w, outcome)
    /\ UNCHANGED <<scraping_status, up, runs, response, env, storeVars, fetchVars, logVars, heightVars>>

\* rugbypass.scrape_all_pages, lines 448-475: one player of the page, then the
\* move to the next page; rugbypass.insert_player returns nothing and
\* scraping_status is not touched
RugbyPassPlayer(w) ==
    /\ worker[w].pc = "rp_player"
    /\ IF worker[w].j < worker[w].m
       THEN \E outcome \in Outcomes({"ok", "no_player_link", "db_error"}) :
               /\ worker' = [worker EXCEPT ![w].j = @ + 1]
               /\ StartUnit(w, Leaf(outcome))
       ELSE /\ \E more \in (IF worker[w].page < env.pages
                            THEN (IF env.faults THEN BOOLEAN ELSE {TRUE})
                            ELSE {FALSE}) :
                  worker' = [worker EXCEPT
                                ![w].pc = IF more THEN "rp_page" ELSE "fix",
                                ![w].page = IF more THEN @ + 1 ELSE 0,
                                ![w].m = 0, ![w].j = 0]
            /\ Quiet(w)
    /\ UNCHANGED <<scraping_status, up, runs, response, env, storeVars, fetchVars, logVars, heightVars>>

\* line 626: fix_sport_columns_after_scrape(); the try block is left normally
FixSport(w) ==
    /\ worker[w].pc = "fix"
    /\ Goto(w, "finally")
    /\ ghost' = [ghost EXCEPT ![w].path = "normal", ![w].event = "none"]
    /\ UNCHANGED <<scraping_status, up, runs, response, env, storeVars, fetchVars, logVars, heightVars>>

\* A variant of Finally whose cleanup sits at the end of the try block: a run
\* that ends in the except clause skips it.
FinallyInTry(w) ==
    /\ worker[w].pc = "finally"
    /\ scraping_status' =
           IF ghost[w].path = "normal"
           THEN [scraping_status EXCEPT !.is_running = FALSE, !.current_sport = "Completed",
                                        !.current_item = NoItem, !.total_items = 0]
           ELSE scraping_status
    /\ worker' = [worker EXCEPT ![w] = IdleWorker]
    /\ UNCHANGED <<ghost, up, runs, response, env, storeVars, fetchVars, logVars, heightVars>>

\* lines 631-637: the finally block; the thread ends
Finally(w) ==
    /\ worker[w].pc = "finally"
    /\ scraping_status' =
           [scraping_status EXCEPT !.is_running = FALSE, !.current_sport = "Completed",
                                   !.current_item = NoItem, !.total_items = 0]
    /\ worker' = [worker EXCEPT ![w] = IdleWorker]
    /\ UNCHANGED <<ghost, up, runs, response, env, storeVars, fetchVars, logVars, heightVars>>

(***************************************************************************)
(* The server: startup, the scheduler and the two control endpoints.       *)
(***************************************************************************)
NoResponse == [op |-> "none", code |-> 0, seq |-> 0]

Respond(op, code) == response' = [op |-> op, code |-> code, seq |-> 1 - response.seq]

\* startup_event, lines 642-652: the periodic job is scheduled and the first
\* scrape is started in a thread of its own
startup_event ==
    /\ ~up
    /\ up' = TRUE
    /\ \E w \in Workers : Spawn(w, "startup")
    /\ UNCHANGED <<scraping_status, response, env, storeVars, fetchVars, logVars, heightVars>>

\* line 648: the interval job fires; max_instances=1 keeps a second instance
\* of the job from starting while one is running; scraping_status is not read
SchedulerJob ==
    /\ up
    /\ \A v \in Workers : ~(Active(v) /\ worker[v].trigger = "scheduler")
    /\ \E w \in Workers : Spawn(w, "scheduler")
    /\ UNCHANGED <<scraping_status, up, response, env, storeVars, fetchVars, logVars, heightVars>>

\* POST /start-scraping, lines 920-930
start_scraping ==
    /\ up
    /\ IF scraping_status.is_running
       THEN /\ Respond("start", 400)
            /\ UNCHANGED <<worker, ghost, runs>>
       ELSE /\ \E w \in Workers : Spawn(w, "request")
            /\ Respond("start", 200)
    /\ UNCHANGED <<scraping_status, up, env, storeVars, fetchVars, logVars, heightVars>>

\* POST /stop-scraping, lines 932-942
\* A variant of stop_scraping that also wipes the progress fields.
stop_scraping_wipes ==
    /\ up
    /\ IF ~scraping_status.is_running
       THEN /\ Respond("stop", 400)
            /\ UNCHANGED <<scraping_status, ghost>>
       ELSE /\ scraping_status' = [scraping_status EXCEPT !.is_running = FALSE,
                                                          !.processed = 0,
                                                          !.current_item = NoItem,
                                                          !.errors = <<>>]
            /\ Respond("stop", 200)
            /\ ghost' = [w \in Workers |->
                            IF Executing(w) THEN [ghost[w] EXCEPT !.stopped = TRUE]
                            ELSE ghost[w]]
    /\ UNCHANGED <<worker, up, runs, env, storeVars, fetchVars, logVars, heightVars>>

stop_scraping ==
    /\ up
    /\ IF ~scraping_status.is_running
       THEN /\ Respond("stop", 400)
            /\ UNCHANGED <<scraping_status, ghost>>
       ELSE /\ scraping_status' = [scraping_status EXCEPT !.is_running = FALSE]
            /\ Respond("stop", 200)
            /\ ghost' = [w \in Workers |->
                            IF Executing(w) THEN [ghost[w] EXCEPT !.stopped = TRUE]
                            ELSE ghost[w]]
    /\ UNCHANGED <<worker, up, runs, env, storeVars, fetchVars, logVars, heightVars>>

WorkerStep(w) ==
    \/ Begin(w)
    \/ InitRun(w)
    \/ AllRugbyBegin(w)
    \/ AllRugbyTeam(w)
    \/ AllRugbyPlayer(w)
    \/ UsaBegin(w)
    \/ UsaTop(w)
    \/ UsaTeam(w)
    \/ UsaPlayer(w)
    \/ RugbyPassBegin(w)
    \/ RugbyPassPage(w)
    \/ RugbyPassPlayer(w)
    \/ FixSport(w)
    \/ Finally(w)

(***************************************************************************)
(* The players table and its writers.  The table is the one created by     *)
(* scraper_api.init_db: name is NOT NULL, player_url is UNIQUE, sport and  *)
(* source have no default.  A row's place in the sequence stands for its   *)
(* SERIAL id.  The argument of a writer is the tuple it hands to           *)
(* cur.execute, after its own conversions.                                 *)
(***************************************************************************)
MaxTime == 3        \* insert_player calls in one behaviour

NULL == "NULL"      \* Python None, SQL NULL

DescFields == {"age", "weight", "height", "country", "position"}

IdFields == {"name", "team", "source"}

Values == {"v1", "v2"}

URLs == {"u1", "u2"}

Full(v, url) ==
    [name |-> v, age |-> v, weight |-> v, height |-> v, sport |-> v, country |-> v,
     position |-> v, team |-> v, source |-> v, player_url |-> url]

Partial(v, f, url) == [Full(v, url) EXCEPT ![f] = NULL]

\* The observations the writers are called with: fully populated records,
\* records with one field missing, and records without a usable URL.
Observations ==
    {Full(v, "u1") : v \in Values}
        \cup {Partial("v2", f, "u1") : f \in DescFields \cup IdFields}
        \cup {Full("v1", u) : u \in {NULL, "", "u2"}}

IsFull(d) == \A f \in DOMAIN d : d[f] # NULL

COALESCE(a, b) == IF a # NULL THEN a ELSE b

\* A players table whose player_url column lacks the UNIQUE constraint.
ConflictWithoutUnique(table, url) == {}

\* player_url TEXT UNIQUE: the rows an insert of url conflicts with; NULLs
\* never conflict
Conflict(table, url) ==
    {k \in 1..Len(table) : url # NULL /\ table[k].player_url = url}

\* INSERT INTO players (...) VALUES (...): created_at and updated_at take
\* their default, CURRENT_TIMESTAMP
NewRow(d, t) ==
    [name |-> d.name, age |-> d.age, weight |-> d.weight, height |-> d.height,
     sport |-> d.sport, country |-> d.country, position |-> d.position,
     team |-> d.team, source |-> d.source, player_url |-> d.player_url,
     created_at |-> t, updated_at |-> t]

\* INSERT ... ON CONFLICT (player_url) DO UPDATE SET ...: merged[k] is row k
\* after the SET clause of the writer
Upsert(table, d, t, merged) ==
    IF Conflict(table, d.player_url) = {}
    THEN Append(table, NewRow(d, t))
    ELSE [k \in 1..Len(table) |->
             IF k \in Conflict(table, d.player_url) THEN merged[k] ELSE table[k]]

\* INSERT ... ON CONFLICT (player_url) DO NOTHING
InsertOrIgnore(table, d, t) ==
    IF Conflict(table, d.player_url) = {} THEN Append(table, NewRow(d, t)) ELSE table

\* scraper_api.py lines 362-372
ScraperApiMerge(row, d, t) ==
    [row EXCEPT !.name = d.name,
                !.age = COALESCE(d.age, row.age),
                !.weight = COALESCE(d.weight, row.weight),
                !.height = COALESCE(d.height, row.height),
                !.sport = d.sport,
                !.country = COALESCE(d.country, row.country),
                !.position = COALESCE(d.position, row.position),
                !.team = COALESCE(d.team, row.team),
                !.source = d.source,
                !.updated_at = t]

\* basketusa.py lines 412-421
BasketUsaMerge(row, d, t) ==
    [row EXCEPT !.name = d.name,
                !.age = COALESCE(d.age, row.age),
                !.weight = COALESCE(d.weight, row.weight),
                !.height = COALESCE(d.height, row.height),
                !.sport = COALESCE(d.sport, row.sport),
                !.country = COALESCE(d.country, row.country),
                !.position = COALESCE(d.position, row.position),
                !.team = d.team,
                !.source = d.source]

\* common_utils.py lines 43-50, rugby_api.py lines 235-242, rugbypass.py lines 140-147
CommonMerge(row, d, t) ==
    [row EXCEPT !.age = d.age,
                !.weight = d.weight,
                !.height = d.height,
                !.country = d.country,
                !.position = d.position,
                !.team = d.team,
                !.updated_at = t]

Done(table, result) == [table |-> table, committed |-> TRUE, result |-> result]

Failed(table, result) == [table |-> table, committed |-> FALSE, result |-> result]

\* The statement raises: the database is unreachable, or name is NULL.
Raises(d, dbok) == ~dbok \/ d.name = NULL

\* scraper_api.insert_player
scraper_api_insert_player(table, d, t, dbok) ==
    IF Raises(d, dbok) THEN Failed(table, "False")
    ELSE Done(Upsert(table, d, t, [k \in 1..Len(table) |-> ScraperApiMerge(table[k], d, t)]), "True")

\* basketusa.insert_player
basketusa_insert_player(table, d, t, dbok) ==
    IF d.player_url \in {NULL, ""} THEN Failed(table, "False")
    ELSE IF Raises(d, dbok) THEN Failed(table, "False")
    ELSE Done(Upsert(table, d, t, [k \in 1..Len(table) |-> BasketUsaMerge(table[k], d, t)]), "True")

\* basketasia.insert_player
basketasia_insert_player(table, d, t, dbok) ==
    IF Raises(d, dbok) THEN Failed(table, "False")
    ELSE Done(InsertOrIgnore(table, d, t), "True")

\* api.insert_player: the INSERT names no sport column
api_insert_player(table, d, t, dbok) ==
    IF Raises(d, dbok) THEN Failed(table, "False")
    ELSE Done(InsertOrIgnore(table, [d EXCEPT !.sport = NULL], t), "True")

\* common_utils.insert_player: the INSERT names no sport column
common_utils_insert_player(table, d, t, dbok) ==
    IF Raises(d, dbok) THEN Failed(table, "False")
    ELSE Done(Upsert(table, [d EXCEPT !.sport = NULL], t,
                [k \in 1..Len(table) |-> CommonMerge(table[k], d, t)]), "True")

\* rugby_api.insert_player: the INSERT names no sport column
rugby_api_insert_player(table, d, t, dbok) ==
    IF Raises(d, dbok) THEN Failed(table, "False")
    ELSE Done(Upsert(table, [d EXCEPT !.sport = NULL], t,
                [k \in 1..Len(table) |-> CommonMerge(table[k], d, t)]), "True")

\* rugbypass.insert_player: country defaults to 'Unknown', source is
\* 'rugbypass.com', no sport column; the function returns nothing
rugbypass_insert_player(table, d, t, dbok) ==
    LET v == [d EXCEPT !.sport = NULL,
                       !.country = IF d.country = NULL THEN "Unknown" ELSE @,
                       !.source = "rugbypass.com"]
    IN  IF Raises(d, dbok) THEN Failed(table, "None")
        ELSE Done(Upsert(table, v, t, [k \in 1..Len(table) |-> CommonMerge(table[k], v, t)]),
                  "None")

NoCall ==
    [writer |-> "none", data |-> Full(NULL, NULL), committed |-> FALSE,
     result |-> "None", repeat |-> FALSE]

\* One call of a writer: the table, the clock and the record of the call.
Call(writer, d, r) ==
    /\ now < MaxTime
    /\ now' = now + 1
    /\ players' = r.table
    /\ last' = [writer |-> writer, data |-> d, committed |-> r.committed,
                result |-> r.result,
                repeat |-> last.committed /\ last.writer = writer /\ last.data = d]
    /\ UNCHANGED <<crawlVars, fetchVars, logVars, heightVars>>

CallScraperApi ==
    \E d \in Observations, dbok \in BOOLEAN :
        Call("scraper_api", d, scraper_api_insert_player(players, d, now + 1, dbok))

CallBasketUsa ==
    \E d \in Observations, dbok \in BOOLEAN :
        Call("basketusa", d, basketusa_insert_player(players, d, now + 1, dbok))

CallBasketAsia ==
    \E d \in Observations, dbok \in BOOLEAN :
        Call("basketasia", d, basketasia_insert_player(players, d, now + 1, dbok))

CallApi ==
    \E d \in Observations, dbok \in BOOLEAN :
        Call("api", d, api_insert_player(players, d, now + 1, dbok))

CallCommonUtils ==
    \E d \in Observations, dbok \in BOOLEAN :
        Call("common_utils", d, common_utils_insert_player(players, d, now + 1, dbok))

CallRugbyApi ==
    \E d \in Observations, dbok \in BOOLEAN :
        Call("rugby_api", d, rugby_api_insert_player(players, d, now + 1, dbok))

CallRugbyPass ==
    \E d \in Observations, dbok \in BOOLEAN :
        Call("rugbypass", d, rugbypass_insert_player(players, d, now + 1, dbok))

(***************************************************************************)
(* fetch_page and the fetched_urls table (basketusa.py, basketasia.py and  *)
(* api.py hold the same code; athletics_scraper.py the same loop around a  *)
(* browser).                                                               *)
(***************************************************************************)
MaxFetches == 3     \* fetch_page calls in one behaviour
MaxRetries == 3     \* largest max_retries a call is made with (the default)

FetchURLs == {"p1", "p2"}

FetchErrors == {"e1", "e2"}

\* recent[u]: status and error of the most recent attempt on u
NoFetch ==
    [pc |-> "idle", url |-> NULL, max_retries |-> 0, attempt |-> 0, requests |-> 0,
     writes |-> 0, slept |-> <<>>, result |-> "none", calls |-> 0, clock |-> 0,
     recent |-> [u \in FetchURLs |-> [status |-> NULL, error_message |-> NULL]]]

\* A plain INSERT into a fetched_urls table without the UNIQUE constraint.
log_fetched_url_append(table, url, status, error_message, t, dbok) ==
    IF ~dbok THEN table
    ELSE Append(table, [url |-> url, fetch_timestamp |-> t, status |-> status,
                        error_message |-> error_message])

\* log_fetched_url: INSERT ... ON CONFLICT (url) DO UPDATE SET fetch_timestamp,
\* status, error_message; a database error is logged and swallowed
log_fetched_url(table, url, status, error_message, t, dbok) ==
    IF ~dbok THEN table
    ELSE IF \E k \in 1..Len(table) : table[k].url = url
    THEN [k \in 1..Len(table) |->
             IF table[k].url = url
             THEN [table[k] EXCEPT !.fetch_timestamp = t, !.status = status,
                                   !.error_message = error_message]
             ELSE table[k]]
    ELSE Append(table, [url |-> url, fetch_timestamp |-> t, status |-> status,
                        error_message |-> error_message])

\* fetch_page(url, max_retries) is called; range(0) runs no attempt and the
\* function falls off its end
FetchCall ==
    /\ fetch.pc \in {"idle", "done"}
    /\ fetch.calls < MaxFetches
    /\ \E url \in FetchURLs, max_retries \in 0..MaxRetries :
           fetch' = [fetch EXCEPT !.pc = IF max_retries = 0 THEN "done" ELSE "attempt",
                                  !.url = url, !.max_retries = max_retries,
                                  !.attempt = 0, !.requests = 0, !.writes = 0,
                                  !.slept = <<>>,
                                  !.result = IF max_retries = 0 THEN "None" ELSE "none",
                                  !.calls = @ + 1]
    /\ UNCHANGED <<crawlVars, storeVars, fetched_urls, logVars, heightVars>>

\* range(max_retries + 1): one attempt too many
LastAttemptOffByOne(attempt, max_retries) == attempt >= max_retries

\* for attempt in range(max_retries), if attempt < max_retries - 1: this
\* iteration is the last one of the loop
LastAttempt(attempt, max_retries) == attempt >= max_retries - 1

\* A fixed pause of one second between attempts.
FixedDelay(attempt) == 1

\* time.sleep(2 ** attempt): the pause after failed attempt number attempt
Backoff(attempt) == 2 ^ attempt

\* one iteration of the loop: requests.get succeeds, or raises RequestException
FetchAttempt ==
    /\ fetch.pc = "attempt"
    /\ \E outcome \in {"success"} \cup FetchErrors,
          dbok \in (IF env.faults THEN BOOLEAN ELSE {TRUE}) :
           LET t == fetch.clock + 1
               status == IF outcome = "success" THEN "success" ELSE "failed"
               error_message == IF outcome = "success" THEN NULL ELSE outcome
               last_attempt == LastAttempt(fetch.attempt, fetch.max_retries)
           IN  /\ fetched_urls' =
                      log_fetched_url(fetched_urls, fetch.url, status, error_message, t, dbok)
               /\ fetch' =
                      [fetch EXCEPT
                          !.clock = t,
                          !.requests = @ + 1,
                          !.writes = IF dbok THEN @ + 1 ELSE @,
                          !.recent[fetch.url] =
                              [status |-> status, error_message |-> error_message],
                          !.pc = IF outcome = "success" \/ last_attempt THEN "done" ELSE "attempt",
                          !.result = IF outcome = "success" THEN "soup"
                                     ELSE IF last_attempt THEN "None" ELSE "none",
                          !.slept = IF outcome # "success" /\ ~last_attempt
                                    THEN Append(@, Backoff(fetch.attempt)) ELSE @,
                          !.attempt = IF outcome # "success" /\ ~last_attempt
                                      THEN @ + 1 ELSE @]
    /\ UNCHANGED <<crawlVars, storeVars, logVars, heightVars>>

(***************************************************************************)
(* log_error on its own: a run reports one error after the other.  The     *)
(* crawl specifications leave the rugby_logs table out.                    *)
(***************************************************************************)
MaxErrors == 12     \* log_error calls in one behaviour

Messages == {"m1", "m2"}

\* log_error(msg): the INSERT into rugby_logs, then, once it has committed, the
\* append to scraping_status['errors'] and the cut to the last 10
ReportError ==
    /\ Len(rugby_logs) < MaxErrors
    /\ \E msg \in Messages, dbok \in BOOLEAN :
          /\ rugby_logs' = IF dbok THEN Append(rugby_logs, msg) ELSE rugby_logs
          /\ scraping_status' = log_error(scraping_status, msg, dbok)
    /\ UNCHANGED <<worker, ghost, up, runs, response, env, storeVars, fetchVars, heightVars>>

(***************************************************************************)
(* The height normalizers.  A scraped height is the text of a table cell   *)
(* or of a bio entry: a run of digits followed by a unit, "201cm", "201CM" *)
(* or a bare "201".                                                        *)
(***************************************************************************)
MinCm == 140        \* the shortest height scraped, in centimetres
MaxCm == 230        \* the tallest height scraped, in centimetres

Units == {"cm", "CM", ""}

CmValues == MinCm..MaxCm

\* A centimetre text: digits and a unit.  A feet/inches text, 6'7" or 6'7'':
\* digits, an apostrophe, the inches and the mark of the inches.
HeightTexts == [digits : CmValues, unit : Units, inches : {0}, mark : {""}]

InchesPerFoot == 12

Marks == {"\"", "''"}

\* The characters of a height text.
Text(text) ==
    IF text.unit = "'"
    THEN ToString(text.digits) \o "'" \o ToString(text.inches) \o text.mark
    ELSE ToString(text.digits) \o text.unit

\* str.replace('"', "''")
replace_quote(text) == [text EXCEPT !.mark = IF @ = "\"" THEN "''" ELSE @]

\* str.replace('cm', ''): case-sensitive
replace_cm(text) == [text EXCEPT !.unit = IF @ = "cm" THEN "" ELSE @]

\* re.search(r'(\d+)\s*cm', text, re.IGNORECASE) and
\* re.search(r'^\d+cm$', text, re.IGNORECASE) on these texts
MatchesCm(text) == text.unit \in {"cm", "CM"}

\* str.isdigit() of the stripped text
isdigit(text) == text.unit = ""

\* int(x): the integer part of num / den, both positive
IntPart(num, den) == num \div den

\* round(x) of Python 3 for x = num / den: to the nearest integer, a tie to
\* the even one
round(num, den) ==
    LET q == num \div den
        r == num % den
    IN  IF 2 * r < den THEN q
        ELSE IF 2 * r > den THEN q + 1
        ELSE IF q % 2 = 0 THEN q ELSE q + 1

\* total_feet = cm * 0.0328084 as the fraction cm * 328084 / 10^7
FeetScale == 10000000

TotalFeet(cm) == cm * 328084

\* f"{feet}'{inches}''" and f"{feet}'{remaining_inches}\""
Format(feet, inches, mark) == ToString(feet) \o "'" \o ToString(inches) \o mark

\* The feet/inches texts a page may show for the heights of CmValues.
FeetInchesTexts ==
    [digits : IntPart(TotalFeet(MinCm), FeetScale)..IntPart(TotalFeet(MaxCm), FeetScale),
     unit : {"'"}, inches : 0..InchesPerFoot, mark : Marks]

\* basketusa.cm_to_feet_inches, lines 159-176; the texts of the model are
\* never empty
basketusa_cm_to_feet_inches(cm_text) ==
    IF MatchesCm(cm_text)
    THEN LET total_feet == TotalFeet(cm_text.digits)
             feet == IntPart(total_feet, FeetScale)
             inches == round((total_feet - feet * FeetScale) * 12, FeetScale)
         IN  Format(feet, inches, "''")
    ELSE IF cm_text.unit = "'" THEN Text(replace_quote(cm_text))
    ELSE NULL

\* basketusa.get_roster, lines 336-345: the height cell of a roster row
basketusa_get_roster_height(height_roster_text) ==
    IF MatchesCm(height_roster_text)
    THEN basketusa_cm_to_feet_inches(replace_cm(height_roster_text))
    ELSE Text(height_roster_text)

\* basketasia.cm_to_feet_inches, lines 163-170, as called at line 222;
\* api.cm_to_feet_inches, lines 205-212, as called at line 254, is the same
basketasia_cm_to_feet_inches(cm) ==
    IF ~isdigit(cm) THEN NULL
    ELSE LET total_feet == TotalFeet(cm.digits)
             feet == IntPart(total_feet, FeetScale)
             inches == round((total_feet - feet * FeetScale) * 12, FeetScale)
         IN  Format(feet, inches, "''")

\* rugbypass.cm_to_feet_inches, lines 92-106, as called by insert_player at
\* line 135: inches = cm / 2.54 = cm * 50 / 127
rugbypass_cm_to_feet_inches(cm_str) ==
    LET cm == cm_str.digits
        inches == IntPart(cm * 50, 127)
        feet == inches \div 12
        remaining_inches == inches % 12
    IN  Format(feet, remaining_inches, "\"")

NoHeight ==
    [text |-> [digits |-> 0, unit |-> "", inches |-> 0, mark |-> ""], by |-> "none",
     result |-> NULL]

\* cm_to_feet_inches of basketusa on the text itself
BasketUsaNormalize ==
    /\ height.by = "none"
    /\ height' = [height EXCEPT !.by = "basketusa.cm_to_feet_inches",
                                !.result = basketusa_cm_to_feet_inches(height.text)]
    /\ UNCHANGED <<crawlVars, storeVars, fetchVars, logVars, position, age, rugby_api>>

\* a roster row of get_roster of basketusa
BasketUsaRoster ==
    /\ height.by = "none"
    /\ height' = [height EXCEPT !.by = "basketusa.get_roster",
                                !.result = basketusa_get_roster_height(height.text)]
    /\ UNCHANGED <<crawlVars, storeVars, fetchVars, logVars, position, age, rugby_api>>

\* a roster row of get_roster of basketasia
BasketAsiaRoster ==
    /\ height.by = "none"
    /\ height' = [height EXCEPT !.by = "basketasia.get_roster",
                                !.result = basketasia_cm_to_feet_inches(height.text)]
    /\ UNCHANGED <<crawlVars, storeVars, fetchVars, logVars, position, age, rugby_api>>

\* a roster row of get_roster of api
ApiRoster ==
    /\ height.by = "none"
    /\ height' = [height EXCEPT !.by = "api.get_roster",
                                !.result = basketasia_cm_to_feet_inches(height.text)]
    /\ UNCHANGED <<crawlVars, storeVars, fetchVars, logVars, position, age, rugby_api>>

\* insert_player of rugbypass on the bio of a player
RugbyPassHeight ==
    /\ height.by = "none"
    /\ height' = [height EXCEPT !.by = "rugbypass.insert_player",
                                !.result = rugbypass_cm_to_feet_inches(height.text)]
    /\ UNCHANGED <<crawlVars, storeVars, fetchVars, logVars, position, age, rugby_api>>

(***************************************************************************)
(* The position mapping of process_country, basketusa.py lines 464-473.    *)
(***************************************************************************)
\* The keys of position_map
Abbreviations == {"g", "pg", "sg", "f", "sf", "pf", "c", "g/f", "f/g"}

\* position_map[key]
position_map(key) ==
    CASE key = "g" -> "Guard" [] key = "pg" -> "Point Guard" [] key = "sg" -> "Shooting Guard"
      [] key = "f" -> "Forward" [] key = "sf" -> "Small Forward" [] key = "pf" -> "Power Forward"
      [] key = "c" -> "Center" [] key = "g/f" -> "Swingman" [] key = "f/g" -> "Swingman"

\* The values of position_map
LongForms == {position_map(key) : key \in Abbreviations}

\* str.upper() of a key
Upper(key) ==
    CASE key = "g" -> "G" [] key = "pg" -> "PG" [] key = "sg" -> "SG"
      [] key = "f" -> "F" [] key = "sf" -> "SF" [] key = "pf" -> "PF"
      [] key = "c" -> "C" [] key = "g/f" -> "G/F" [] key = "f/g" -> "F/G"

\* The position texts of a roster: abbreviations in either case, long forms,
\* long forms in lower case and positions the map does not know.
Positions ==
    Abbreviations \cup {Upper(key) : key \in Abbreviations} \cup LongForms
        \cup {"guard", "center", "Wing", "wing"}

\* str.lower()
Lower(text) ==
    IF \E key \in Abbreviations : Upper(key) = text
    THEN CHOOSE key \in Abbreviations : Upper(key) = text
    ELSE CASE text = "Guard" -> "guard" [] text = "Point Guard" -> "point guard"
           [] text = "Shooting Guard" -> "shooting guard" [] text = "Forward" -> "forward"
           [] text = "Small Forward" -> "small forward" [] text = "Power Forward" -> "power forward"
           [] text = "Center" -> "center" [] text = "Swingman" -> "swingman"
           [] text = "Wing" -> "wing" [] OTHER -> text

\* position_map.get(position.lower(), position)
position_map_get(text) ==
    IF Lower(text) \in Abbreviations THEN position_map(Lower(text)) ELSE text

NoPosition == [text |-> NULL, mapped |-> FALSE, result |-> NULL]

\* lines 465-473: if player_data['position']: ... position_map.get(...)
MapPosition ==
    /\ ~position.mapped
    /\ position' = [position EXCEPT !.mapped = TRUE, !.result = position_map_get(position.text)]
    /\ UNCHANGED <<crawlVars, storeVars, fetchVars, logVars, height, age, rugby_api>>

(***************************************************************************)
(* Age from a date of birth.  A date is what strptime(..., "%d %b %Y")     *)
(* returns: a year, a month and a day of the calendar.                     *)
(***************************************************************************)
FirstYear == 2000   \* the first year of the dates drawn
LastYear == 2003    \* the last year of the dates drawn
MaxMonth == 3       \* the months of the dates drawn are 1..MaxMonth

IsLeap(y) == y % 4 = 0 /\ (y % 100 # 0 \/ y % 400 = 0)

\* calendar.monthrange(y, m)[1]
DaysIn(y, m) ==
    IF m = 2 THEN (IF IsLeap(y) THEN 29 ELSE 28)
    ELSE IF m \in {4, 6, 9, 11} THEN 30 ELSE 31

Dates ==
    {dt \in [year : FirstYear..LastYear, month : 1..MaxMonth, day : 1..31] :
        dt.day <= DaysIn(dt.year, dt.month)}

\* (a.month, a.day) < (b.month, b.day), the order of tuples
MonthDayBefore(a, b) == a.month < b.month \/ (a.month = b.month /\ a.day < b.day)

\* a < b for dates
Before(a, b) == a.year < b.year \/ (a.year = b.year /\ MonthDayBefore(a, b))

\* ultimate.py, lines 531-532 and 719-720
ultimate_age(dob, today) ==
    today.year - dob.year - (IF MonthDayBefore(today, dob) THEN 1 ELSE 0)

\* dt + relativedelta(months=n) of dateutil: the month is moved and the day
\* is cut to the length of the month reached
AddMonths(dt, n) ==
    LET k == (dt.month - 1) + n
        y == dt.year + (k \div 12)
        m == (k % 12) + 1
    IN  [year |-> y, month |-> m,
         day |-> IF dt.day <= DaysIn(y, m) THEN dt.day ELSE DaysIn(y, m)]

\* athletics_scraper.calculate_age, lines 190-200: relativedelta(today, dob).years
\* for today at or after dob; relativedelta takes the difference in months,
\* steps one month back while dob + months lies after today, and years is
\* the whole number of 12 months in it
calculate_age(dob, today) ==
    LET months == (today.year - dob.year) * 12 + (today.month - dob.month)
        fitted == IF Before(today, AddMonths(dob, months)) THEN months - 1 ELSE months
    IN  fitted \div 12

NoAge == [dob |-> [year |-> 0, month |-> 0, day |-> 0],
          today |-> [year |-> 0, month |-> 0, day |-> 0], by |-> "none", result |-> 0]

\* the age of a player of Ultimate Rugby
UltimateAge ==
    /\ age.by = "none"
    /\ age' = [age EXCEPT !.by = "ultimate", !.result = ultimate_age(age.dob, age.today)]
    /\ UNCHANGED <<crawlVars, storeVars, fetchVars, logVars, height, position, rugby_api>>

\* the age of an athlete of athletics_scraper
AthleticsAge ==
    /\ age.by = "none"
    /\ age' = [age EXCEPT !.by = "athletics_scraper",
                          !.result = calculate_age(age.dob, age.today)]
    /\ UNCHANGED <<crawlVars, storeVars, fetchVars, logVars, height, position, rugby_api>>

(***************************************************************************)
(* The crawl of rugby_api.py: its own status dictionary (lines 52-59) and  *)
(* its own scrape_all_background (lines 343-393), one thread at a time.    *)
(***************************************************************************)
MaxApiTeams == 3    \* team URLs get_all_team_urls of rugby_api returns

RugbyApiStatus ==
    [is_running |-> FALSE, processed |-> 0, current_team |-> "", total_teams |-> 0,
     start_time |-> 0, errors |-> <<>>]

\* runs: the threads started so far, and the reading of datetime.now()
NoRugbyApi == [status |-> RugbyApiStatus, pc |-> "idle", n |-> 0, i |-> 0, runs |-> 0]

\* startup thread, scheduler job or the task of /start-scraping (lines 397-406,
\* 676-686)
RugbyApiSpawn ==
    /\ rugby_api.pc = "idle"
    /\ rugby_api.runs < MaxRuns
    /\ rugby_api' = [rugby_api EXCEPT !.pc = "queued", !.runs = @ + 1]
    /\ UNCHANGED <<crawlVars, storeVars, fetchVars, logVars, height, position, age>>

\* lines 346-350: the reset at the start of the run
RugbyApiBegin ==
    /\ rugby_api.pc = "queued"
    /\ rugby_api' =
           [rugby_api EXCEPT !.pc = "init",
                             !.status = [@ EXCEPT !.is_running = TRUE, !.processed = 0,
                                                  !.current_team = "",
                                                  !.start_time = rugby_api.runs,
                                                  !.errors = <<>>]]
    /\ UNCHANGED <<crawlVars, storeVars, fetchVars, logVars, height, position, age>>

\* lines 353-361: init_db, scrape_all_pages, setup_driver and
\* get_all_team_urls; any of the first three may raise (lines 388-390)
RugbyApiInit ==
    /\ rugby_api.pc = "init"
    /\ \E outcome \in {"ok", "raised"}, logok \in BOOLEAN :
       \E n \in 0..(IF outcome = "ok" THEN MaxApiTeams ELSE 0) :
          rugby_api' =
              IF outcome = "ok"
              THEN [rugby_api EXCEPT !.pc = "team", !.n = n, !.i = 0,
                                     !.status.total_teams = n]
              ELSE [rugby_api EXCEPT !.pc = "finally",
                                     !.status = log_error(@, "Scraping error", logok)]
    /\ UNCHANGED <<crawlVars, storeVars, fetchVars, logVars, height, position, age>>

\* lines 363-384: one team with its players, or the end of the loop
RugbyApiTeam ==
    /\ rugby_api.pc = "team"
    /\ IF rugby_api.i < rugby_api.n /\ rugby_api.status.is_running
       THEN \E k \in 0..MaxPlayers :
               rugby_api' =
                   [rugby_api EXCEPT !.i = @ + 1,
                                     !.status.current_team = "team_url",
                                     !.status.processed = @ + k]
       ELSE rugby_api' = [rugby_api EXCEPT !.pc = "finally", !.n = 0, !.i = 0,
                                           !.status.current_team = "Completed"]
    /\ UNCHANGED <<crawlVars, storeVars, fetchVars, logVars, height, position, age>>

\* lines 391-393: the finally block
RugbyApiFinally ==
    /\ rugby_api.pc = "finally"
    /\ rugby_api' = [rugby_api EXCEPT !.pc = "idle", !.n = 0, !.i = 0,
                                      !.status.is_running = FALSE,
                                      !.status.current_team = "Completed"]
    /\ UNCHANGED <<crawlVars, storeVars, fetchVars, logVars, height, position, age>>

\* POST /stop-scraping, lines 688-698, when it is accepted
RugbyApiStop ==
    /\ rugby_api.status.is_running
    /\ rugby_api' = [rugby_api EXCEPT !.status.is_running = FALSE]
    /\ UNCHANGED <<crawlVars, storeVars, fetchVars, logVars, height, position, age>>

CrawlInit ==
    /\ scraping_status = InitialStatus
    /\ worker = [w \in Workers |-> IdleWorker]
    /\ ghost = [w \in Workers |-> NoGhost]
    /\ up = FALSE
    /\ runs = 0
    /\ response = NoResponse

StoreIdle ==
    /\ players = <<>>
    /\ now = 0
    /\ last = NoCall
    /\ fetched_urls = <<>>
    /\ fetch = NoFetch
    /\ rugby_logs = <<>>
    /\ height = NoHeight
    /\ position = NoPosition
    /\ age = NoAge
    /\ rugby_api = NoRugbyApi

\* Every page and every insert succeeds; only init_db and setup_driver may fail.
Init ==
    /\ CrawlInit
    /\ StoreIdle
    /\ env = [slots |-> MaxWorkers, faults |-> FALSE, teams |-> MaxTeams,
              players |-> MaxPlayers, usTeams |-> MaxUsTeams, pages |-> MaxPages]

Next ==
    \/ startup_event
    \/ SchedulerJob
    \/ start_scraping
    \/ stop_scraping
    \/ \E w \in Workers : WorkerStep(w)

Spec == Init /\ [][Next]_vars

\* The crawl is idle; the writers are called in any order with any observation.
StoreInit ==
    /\ CrawlInit
    /\ StoreIdle
    /\ env = [slots |-> 0, faults |-> TRUE, teams |-> 0, players |-> 0,
              usTeams |-> 0, pages |-> 0]

StoreNext ==
    \/ CallScraperApi
    \/ CallBasketUsa
    \/ CallCommonUtils
    \/ CallRugbyApi
    \/ CallRugbyPass
    \/ CallBasketAsia
    \/ CallApi

SpecStore == StoreInit /\ [][StoreNext]_vars

(***************************************************************************)
(* Properties of the crawl orchestrator, checked under Spec.               *)
(***************************************************************************)

\* C1: a start request that arrives while a crawl run is in progress (a worker
\* is queued or executing) is answered with the conflict code and neither
\* starts nor queues a second worker.
C1_StartRejectedWhileRunInProgress ==
    [][(response' # response /\ response'.op = "start" /\ \E w \in Workers : Active(w))
          => (response'.code = 400 /\ worker' = worker)]_vars

\* C2: at most one worker is executing scrape_all_background at any moment.
C2_AtMostOneWorkerExecuting ==
    Cardinality({w \in Workers : Executing(w)}) <= 1

\* C3: in a behaviour with a single crawl run, the worker starts at most one
\* unit of work (team, group, player, page) after stop has cleared the flag.
C3_NoNewUnitAfterStop ==
    runs = 1 => \A w \in Workers : ghost[w].after <= 1

\* C4: the step by which a worker leaves scrape_all_background, by whatever
\* path, leaves is_running false in the status the query returns; and the
\* status never reports a run while no worker is queued or executing.
C4_ExitClearsIsRunning ==
    /\ [][\A w \in Workers :
            (worker[w].pc # "idle" /\ worker'[w].pc = "idle")
                => ~get_scraping_status'.is_running]_vars
    /\ []((\A w \in Workers : ~Active(w)) => ~get_scraping_status.is_running)

\* C4 witness: one worker has left through the except clause, another after a
\* stop, and the status reports no run.
C4_Witness ==
    /\ \E w \in Workers : worker[w].pc = "idle" /\ ghost[w].path = "exception"
    /\ \E w \in Workers : worker[w].pc = "idle" /\ ghost[w].path = "normal" /\ ghost[w].stopped
    /\ ~get_scraping_status.is_running

\* C5: a stop request changes nothing but is_running, which it leaves false:
\* the progress fields keep their values and no worker has moved when the
\* response is sent; the request is accepted exactly when is_running was true.
C5_StopOnlyClearsFlag ==
    [][(response' # response /\ response'.op = "stop")
          => /\ scraping_status' = [scraping_status EXCEPT !.is_running = FALSE]
             /\ worker' = worker
             /\ (response'.code = 200) = scraping_status.is_running]_vars

\* C5 witness: stop has been accepted in the middle of a run that has made
\* progress, and the worker is still executing.
C5_Witness ==
    /\ response.op = "stop" /\ response.code = 200
    /\ ~scraping_status.is_running
    /\ scraping_status.processed > 0
    /\ scraping_status.current_item # NoItem
    /\ \E w \in Workers : Executing(w) /\ ghost[w].stopped /\ worker[w].pc # "finally"

(***************************************************************************)
(* Properties of the players table, checked under SpecStore.               *)
(***************************************************************************)
\* The step is a committed insert_player call whose URL matches row k.
Updates(k) ==
    /\ now' = now + 1
    /\ last'.committed
    /\ k \in Conflict(players, last'.data.player_url)

\* C6: a committed upsert by any writer leaves each descriptive field of the
\* matching row at the stored value when the new value is null and at the new
\* value otherwise; a stored non-null value never becomes null.
C6_DescriptiveFieldsCoalesce ==
    [][\A k \in 1..Len(players) :
          Updates(k) =>
              \A f \in DescFields :
                  players'[k][f] = COALESCE(last'.data[f], players[k][f])]_vars

\* C7: a committed upsert of an existing URL overwrites name, team and source
\* of the matching row with the new values, null included.
C7_IdentityFieldsOverwritten ==
    [][\A k \in 1..Len(players) :
          Updates(k) => \A f \in IdFields : players'[k][f] = last'.data[f]]_vars

\* C8: no row of the players table has a null or empty player_url, and a call
\* with such a URL returns false.
C8_NoRowWithoutUrl ==
    /\ \A k \in 1..Len(players) : players[k].player_url \notin {NULL, ""}
    /\ last.data.player_url \in {NULL, ""} /\ last.writer # "none" => last.result = "False"

\* The table without the column that every update refreshes.
WithoutUpdatedAt(table) == [k \in 1..Len(table) |-> [table[k] EXCEPT !.updated_at = 0]]

\* C9: when a writer is called a second time with the fully populated record
\* of its previous, committed call, the table keeps every row and every field
\* other than updated_at.
C9_IdempotentOnFullRecords ==
    [][(/\ now' = now + 1
        /\ last.committed
        /\ last'.writer = last.writer
        /\ last'.data = last.data
        /\ IsFull(last.data))
          => WithoutUpdatedAt(players') = WithoutUpdatedAt(players)]_vars

\* C9 witness: scraper_api.insert_player has been called twice in a row with
\* the same fully populated record, both calls committed, over a row that held
\* other values before.
C9_Witness ==
    /\ last.writer = "scraper_api"
    /\ last.repeat /\ last.committed
    /\ IsFull(last.data)
    /\ now = 3
    /\ \E k \in 1..Len(players) :
           /\ players[k].player_url = last.data.player_url
           /\ players[k].created_at = 1
           /\ players[k].updated_at = 3
           /\ \A f \in DescFields \cup IdFields : players[k][f] = last.data[f]

\* The stored row for url after scraper_api.insert_player has applied a, then b.
AfterBoth(a, b) ==
    LET t1 == scraper_api_insert_player(players, a, now + 1, TRUE).table
        t2 == scraper_api_insert_player(t1, b, now + 2, TRUE).table
    IN  t2[CHOOSE k \in Conflict(t2, a.player_url) : TRUE]

\* C10: for two observations a, b of a stored URL, the descriptive fields after
\* applying both are the same in either order unless both carry a value, in
\* which case the later one wins; name, team and source hold the value of the
\* observation applied later.
C10_OrderOfTwoObservations ==
    \A a, b \in Observations :
        (/\ a.player_url = b.player_url
         /\ Conflict(players, a.player_url) # {}
         /\ a.name # NULL /\ b.name # NULL)
            => /\ \A f \in DescFields :
                      IF a[f] # NULL /\ b[f] # NULL
                      THEN AfterBoth(a, b)[f] = b[f] /\ AfterBoth(b, a)[f] = a[f]
                      ELSE AfterBoth(a, b)[f] = AfterBoth(b, a)[f]
               /\ \A f \in IdFields :
                      AfterBoth(a, b)[f] = b[f] /\ AfterBoth(b, a)[f] = a[f]

\* C11: a committed upsert of a stored URL, by any writer, sets updated_at of
\* the matching row to the time of that upsert.
C11_UpdatedAtRefreshed ==
    [][\A k \in 1..Len(players) :
          Updates(k) => players'[k].updated_at = now']_vars

\* The rows of table that hold url.
RowsOf(table, url) == {k \in 1..Len(table) : table[k].player_url = url}

\* C12: the table holds exactly one row for each URL ever accepted: no two
\* rows share a player_url, a committed call leaves a row for its URL, a call
\* for a stored URL adds no row, and no call removes or re-keys a row.
C12_OneRowPerUrl ==
    /\ [](\A j, k \in 1..Len(players) :
              players[j].player_url = players[k].player_url => j = k)
    /\ [][now' = now + 1 =>
            /\ Len(players') >= Len(players)
            /\ \A k \in 1..Len(players) : players'[k].player_url = players[k].player_url
            /\ last'.committed => RowsOf(players', last'.data.player_url) # {}
            /\ RowsOf(players, last'.data.player_url) # {} => Len(players') = Len(players)]_vars

\* The same statement for the URLs that are not null (checked to hold).
OneRowPerNonNullUrl ==
    /\ [](\A j, k \in 1..Len(players) :
              players[j].player_url = players[k].player_url /\ players[j].player_url # NULL
                  => j = k)
    /\ [][now' = now + 1 /\ last'.data.player_url # NULL =>
            /\ Len(players') >= Len(players)
            /\ \A k \in 1..Len(players) : players'[k].player_url = players[k].player_url
            /\ last'.committed => RowsOf(players', last'.data.player_url) # {}
            /\ RowsOf(players, last'.data.player_url) # {} => Len(players') = Len(players)]_vars

(***************************************************************************)
(* Properties of fetch_page and the fetch ledger, checked under SpecFetch. *)
(***************************************************************************)

\* C13: a call of fetch_page makes at most max_retries requests; it returns
\* the page at the first successful attempt, every attempt before it having
\* failed, and returns None after exactly max_retries failed attempts.
C13_AtMostMaxRetriesRequests ==
    /\ fetch.requests <= fetch.max_retries
    /\ fetch.pc = "attempt" =>
           fetch.result = "none" /\ fetch.requests = fetch.attempt
    /\ fetch.result = "soup" =>
           /\ fetch.pc = "done"
           /\ fetch.requests = fetch.attempt + 1
           /\ fetch.recent[fetch.url].status = "success"
    /\ fetch.result = "None" =>
           /\ fetch.pc = "done"
           /\ fetch.requests = fetch.max_retries
           /\ fetch.max_retries > 0 => fetch.recent[fetch.url].status = "failed"

\* C13 witness: a call with max_retries = 3 has returned None after three
\* failed requests.
C13_Witness ==
    /\ fetch.pc = "done" /\ fetch.result = "None"
    /\ fetch.max_retries = 3 /\ fetch.requests = 3
    /\ fetch.slept = <<1, 2>>

C15_OneLedgerWritePerCall ==
    /\ fetch.pc = "attempt" => fetch.writes = 0
    /\ fetch.pc = "done" /\ fetch.max_retries > 0 => fetch.writes = 1

\* C23: fetch_page pauses 2^i between failed attempt i and attempt i + 1,
\* counting from 0 (1, then 2, ...), once per failed attempt that is followed
\* by another one, and not after the last failed attempt: a call that gave
\* up has paused max_retries - 1 times.
C23_ExponentialBackoff ==
    /\ \A i \in 1..Len(fetch.slept) : fetch.slept[i] = 2 ^ (i - 1)
    /\ Len(fetch.slept) = fetch.attempt
    /\ fetch.result = "soup" => Len(fetch.slept) = fetch.requests - 1
    /\ fetch.result = "None" /\ fetch.max_retries > 0
           => Len(fetch.slept) = fetch.max_retries - 1

C23_Witness ==
    /\ fetch.result = "None"
    /\ fetch.requests = 3
    /\ Len(fetch.slept) = 2 /\ fetch.slept[1] = 1 /\ fetch.slept[2] = 2

(***************************************************************************)
(* Properties of a crawl run whose pages, extractions and inserts may      *)
(* fail, checked under SpecFaults.                                         *)
(***************************************************************************)
\* Worker w takes a step of its run (the reset at the start excluded).
Steps(w) == worker'[w] # worker[w] /\ Executing(w)

\* C16: a step of the run adds one to processed exactly when it made a
\* successful insert_player, in whatever source phase, and leaves processed
\* alone otherwise.
C16_ProcessedCountsUpserts ==
    [][\A w \in Workers :
          Steps(w) =>
              scraping_status'.processed =
                  scraping_status.processed + (IF ghost'[w].event = "upserted" THEN 1 ELSE 0)]_vars

\* The same statement for the steps outside the RugbyPass phase (checked to hold).
ProcessedCountsUpsertsOutsideRugbyPass ==
    [][\A w \in Workers :
          Steps(w) /\ worker[w].pc # "rp_player" =>
              scraping_status'.processed =
                  scraping_status.processed + (IF ghost'[w].event = "upserted" THEN 1 ELSE 0)]_vars

\* The outcomes of a unit that are failures of a fetch, an extraction or an insert.
UnitFailures ==
    {"fetch_failed", "scrape_failed", "db_error", "no_player_url", "no_player_link",
     "page_failed", "load_failed"}

\* Where a worker at position v goes on after a failed unit when the failure
\* stops nothing: the next leaf, the (empty) children of the failed group, or
\* the next phase when the failed unit was the whole phase.
GoesOn(v) ==
    CASE v.pc = "allrugby" -> {"rugby_team"}
      [] v.pc = "rugby_team" -> {"rugby_player"}
      [] v.pc = "rugby_player" -> {"rugby_player"}
      [] v.pc = "usa_top" -> {"usa_team"}
      [] v.pc = "usa_team" -> {"usa_player"}
      [] v.pc = "usa_player" -> {"usa_player"}
      [] v.pc = "rugbypass" -> {"fix"}
      [] v.pc = "rp_page" -> IF v.page < env.pages THEN {"rp_page", "rp_player"} ELSE {"fix"}
      [] v.pc = "rp_player" -> {"rp_player"}
      [] OTHER -> {}

\* C18: a step in which a fetch, an extraction or an insert fails leaves the
\* worker in the traversal: it goes on with the next leaf or the next sibling,
\* and neither leaves the try block nor skips the units that remain.
C18_FailureDoesNotStopTraversal ==
    [][\A w \in Workers :
          Steps(w) /\ ghost'[w].event \in UnitFailures =>
              worker'[w].pc \in GoesOn(worker[w])]_vars

\* The same statement for the steps other than a listing page of rugbypass.com
\* (checked to hold).
FailureDoesNotStopTraversalOutsidePages ==
    [][\A w \in Workers :
          Steps(w) /\ ghost'[w].event \in UnitFailures /\ worker[w].pc # "rp_page" =>
              worker'[w].pc \in GoesOn(worker[w])]_vars

(***************************************************************************)
(* Properties of log_error, checked under SpecLog.                         *)
(***************************************************************************)

FetchInit ==
    /\ CrawlInit
    /\ StoreIdle
    /\ env = [slots |-> 0, faults |-> FALSE, teams |-> 0, players |-> 0,
              usTeams |-> 0, pages |-> 0]

FetchNext == FetchCall \/ FetchAttempt

SpecFetch == FetchInit /\ [][FetchNext]_vars

\* One worker at a time, in an environment where every page fetch, extraction
\* and insert may fail.
FaultsInit ==
    /\ CrawlInit
    /\ StoreIdle
    /\ env = [slots |-> 1, faults |-> TRUE, teams |-> MaxTeams, players |-> MaxPlayers,
              usTeams |-> MaxUsTeams, pages |-> MaxFaultPages]

SpecFaults == FaultsInit /\ [][Next]_vars

\* log_error is called again and again on the status dictionary.
LogInit ==
    /\ CrawlInit
    /\ StoreIdle
    /\ env = [slots |-> 0, faults |-> TRUE, teams |-> 0, players |-> 0,
              usTeams |-> 0, pages |-> 0]

LogNext == ReportError

SpecLog == LogInit /\ [][LogNext]_vars

(***************************************************************************)
(* Failure at the start of the run.                                        *)
(***************************************************************************)
\* The run of worker w left the try block at init_db() or setup_driver().
FailedAtStart(w) == ghost[w].path = "exception" /\ ~worker[w].driver

\* What GET /scraping-status shows of a run that did not complete: a stage
\* other than 'Completed', or the global error among the recent errors.
ShowsFailure(status) ==
    \/ status.current_sport # "Completed"
    \/ \E k \in 1..Len(status.errors) : status.errors[k] = "Global scraping error"

\* C19: when init_db() or setup_driver() fails at the start of the run, the
\* run ends without starting a unit of work, and the status the operator
\* reads after the run ended shows a failure, not a completed run.
C19_StartupFailureEndsFailed ==
    [][\A w \in Workers :
          worker[w].pc = "finally" /\ worker'[w].pc = "idle" /\ FailedAtStart(w)
              => ShowsFailure(scraping_status') /\ scraping_status'.processed = 0]_vars

\* The part of C19 that holds: a failure of init_db() or setup_driver() goes
\* straight to the finally block, and no unit is processed on the way.
StartupFailureStartsNoUnit ==
    [][\A w \in Workers :
          worker[w].pc = "init" /\ worker'[w].pc \notin {"init", "allrugby"}
              => /\ worker'[w].pc = "finally"
                 /\ ghost'[w].event = "fatal"
                 /\ scraping_status'.processed = scraping_status.processed]_vars

\* A height text is scraped and one of the normalizers is applied to it.
HeightInit ==
    /\ CrawlInit
    /\ players = <<>>
    /\ now = 0
    /\ last = NoCall
    /\ fetched_urls = <<>>
    /\ fetch = NoFetch
    /\ rugby_logs = <<>>
    /\ env = [slots |-> 0, faults |-> FALSE, teams |-> 0, players |-> 0,
              usTeams |-> 0, pages |-> 0]
    /\ \E text \in HeightTexts \cup FeetInchesTexts : height = [NoHeight EXCEPT !.text = text]
    /\ \E text \in Positions : position = [NoPosition EXCEPT !.text = text]
    /\ age = NoAge
    /\ rugby_api = NoRugbyApi

HeightNext ==
    \/ RugbyPassHeight
    \/ BasketUsaRoster
    \/ BasketUsaNormalize
    \/ BasketAsiaRoster
    \/ ApiRoster
    \/ MapPosition

SpecHeight == HeightInit /\ [][HeightNext]_vars

(***************************************************************************)
(* Height normalization.                                                   *)
(***************************************************************************)
\* feet = int(cm * 0.0328084) and inches = round of the remainder times 12
Feet(cm) == IntPart(TotalFeet(cm), FeetScale)

Inches(cm) == round((TotalFeet(cm) - Feet(cm) * FeetScale) * 12, FeetScale)

\* The calls the crawl makes.
CrawlPaths ==
    {"basketusa.get_roster", "basketasia.get_roster", "api.get_roster",
     "rugbypass.insert_player"}

\* The form of a centimetre value each caller looks for in the page: "201cm"
\* in a BasketUSA roster, bare digits in the other rosters, any of them in a
\* RugbyPass bio.
Expects(by, text) ==
    CASE by \in {"basketusa.get_roster", "basketusa.cm_to_feet_inches"} -> text.unit = "cm"
      [] by \in {"basketasia.get_roster", "api.get_roster"} -> text.unit = ""
      [] OTHER -> text \in HeightTexts

\* C20: whichever normalizer the crawl applies to a centimetre value, the
\* height it yields is int(cm * 0.0328084) feet and round(remainder * 12)
\* inches, written feet'inches" ; so all normalizers agree on every value.
C20_HeightNormalizersAgree ==
    height.by \in CrawlPaths /\ Expects(height.by, height.text)
        => height.result = Format(Feet(height.text.digits), Inches(height.text.digits), "\"")

\* What the normalizers make of 200 cm: the basket ones, called on the text
\* they parse, give 6 feet 7 with two apostrophes for the inches; the roster
\* of BasketUSA gives no height; RugbyPass gives 6 feet 6.
TwoMetres ==
    height.text.digits = 200 /\ Expects(height.by, height.text) =>
        CASE height.by = "basketusa.cm_to_feet_inches" -> height.result = "6'7''"
          [] height.by = "basketusa.get_roster" -> height.result = NULL
          [] height.by \in {"basketasia.get_roster", "api.get_roster"} -> height.result = "6'7''"
          [] height.by = "rugbypass.insert_player" -> height.result = "6'6\""
          [] OTHER -> TRUE

(***************************************************************************)
(* Idempotence of the normalizers.                                         *)
(***************************************************************************)
\* C21: the height normalizer returns a text that is already in feet/inches
\* form unchanged, character for character, and the position mapping
\* returns a position that is already a canonical long form unchanged.
C21_NormalizersIdempotent ==
    /\ height.by = "basketusa.cm_to_feet_inches" /\ height.text \in FeetInchesTexts
           => height.result = Text(height.text)
    /\ position.mapped /\ position.text \in LongForms => position.result = position.text

\* The parts of C21 that hold.  What cm_to_feet_inches of basketusa makes of
\* a centimetre text is a feet/inches text with two apostrophes, and such a
\* text it returns unchanged: applied to its own result it changes nothing.
HeightOwnFormUnchanged ==
    height.by = "basketusa.cm_to_feet_inches" =>
        /\ height.text \in HeightTexts /\ height.result # NULL
               => \E t \in FeetInchesTexts : t.mark = "''" /\ Text(t) = height.result
        /\ height.text \in FeetInchesTexts /\ height.text.mark = "''"
               => height.result = Text(height.text)

\* The position mapping applied to its own result changes nothing, and a
\* long form is returned as it is.
PositionMappingIdempotent ==
    position.mapped =>
        /\ position_map_get(position.result) = position.result
        /\ position.text \in LongForms => position.result = position.text

\* A date of birth is read on a day at or after it, and one of the two age
\* computations is applied.
AgeInit ==
    /\ CrawlInit
    /\ players = <<>>
    /\ now = 0
    /\ last = NoCall
    /\ fetched_urls = <<>>
    /\ fetch = NoFetch
    /\ rugby_logs = <<>>
    /\ height = NoHeight
    /\ position = NoPosition
    /\ rugby_api = NoRugbyApi
    /\ env = [slots |-> 0, faults |-> FALSE, teams |-> 0, players |-> 0,
              usTeams |-> 0, pages |-> 0]
    /\ \E dob \in Dates, today \in Dates :
          /\ ~Before(today, dob)
          /\ age = [NoAge EXCEPT !.dob = dob, !.today = today]

AgeNext == UltimateAge \/ AthleticsAge

SpecAge == AgeInit /\ [][AgeNext]_vars

(***************************************************************************)
(* Age.                                                                    *)
(***************************************************************************)
\* The birthdays reached from dob up to today: the years after the year of
\* birth whose anniversary is not after today.
Birthdays(dob, today) ==
    Cardinality({y \in (dob.year + 1)..today.year :
                    ~Before(today, [year |-> y, month |-> dob.month, day |-> dob.day])})

\* C22: both age computations give, for every date of birth and every today
\* at or after it, the year difference less one when today's (month, day)
\* precedes the birth (month, day); so they agree on every input.
C22_AgeIsYearDifference ==
    age.by # "none" =>
        age.result = age.today.year - age.dob.year
                         - (IF MonthDayBefore(age.today, age.dob) THEN 1 ELSE 0)

\* The part of C22 that holds: the computation of ultimate.py counts the
\* birthdays reached, a 29 February counted on the day itself or on the
\* first day after it; calculate_age agrees with it except for a birth on
\* 29 February read on a 28 February of a common year.
AgeAgreesButLeapDay ==
    /\ age.by = "ultimate" => age.result = Birthdays(age.dob, age.today)
    /\ age.by = "athletics_scraper"
          /\ ~(age.dob.month = 2 /\ age.dob.day = 29 /\ age.today.month = 2
                 /\ age.today.day = 28 /\ ~IsLeap(age.today.year))
          => age.result = ultimate_age(age.dob, age.today)

(***************************************************************************)
(* Failures and the recent errors, checked under SpecFaults.               *)
(***************************************************************************)
\* A page that could not be fetched or loaded, or whose content could not
\* be extracted.
FetchOrExtractionFailures ==
    {"fetch_failed", "load_failed", "page_failed", "scrape_failed", "no_player_link"}

\* The phases whose failures are reported by log_error of scraper_api.
InAllRugby(w) == worker[w].pc \in {"allrugby", "rugby_team", "rugby_player"}

\* C24: every fetch failure and every extraction failure of a run, in any
\* source phase, is appended to the errors of the status dictionary.
C24_FailuresAppended ==
    [][\A w \in Workers :
          Steps(w) /\ ghost'[w].event \in FetchOrExtractionFailures
              => /\ scraping_status'.errors # <<>>
                 /\ Len(scraping_status'.errors) = Len(scraping_status.errors) + 1]_vars

\* The part of C24 that holds: a failure is appended in the All.Rugby phase
\* whenever a message is appended at all, and a step appends at most one.
FailuresAppendedOnlyInAllRugby ==
    [][\A w \in Workers :
          Steps(w) /\ scraping_status'.errors # scraping_status.errors
              => /\ Len(scraping_status'.errors) = Len(scraping_status.errors) + 1
                 /\ \/ InAllRugby(w) /\ ghost'[w].event \in UnitFailures \cup {"load_failed"}
                    \/ ghost'[w].event = "fatal"]_vars

\* The server of rugby_api.py runs its crawl again and again.
RugbyApiInitial ==
    /\ CrawlInit
    /\ StoreIdle
    /\ env = [slots |-> 0, faults |-> TRUE, teams |-> 0, players |-> 0,
              usTeams |-> 0, pages |-> 0]

RugbyApiNext ==
    \/ RugbyApiSpawn
    \/ RugbyApiBegin
    \/ RugbyApiInit
    \/ RugbyApiTeam
    \/ RugbyApiFinally
    \/ RugbyApiStop

SpecRugbyApi == RugbyApiInitial /\ [][RugbyApiNext]_vars

(***************************************************************************)
(* The reset at the start of a run.                                        *)
(***************************************************************************)
\* C25: at the start of every crawl run the status dictionary is fresh:
\* processed 0, no errors, total 0, no current item, and the start time of
\* this run, whatever the run before left in it.
C25_FreshStatusAtStart ==
    [][rugby_api.pc = "queued" /\ rugby_api'.pc = "init"
          => /\ rugby_api'.status.processed = 0
             /\ rugby_api'.status.errors = <<>>
             /\ rugby_api'.status.total_teams = 0
             /\ rugby_api'.status.current_team = ""
             /\ rugby_api'.status.start_time = rugby_api.runs]_vars

\* The part of C25 that holds in rugby_api.py: everything but the total.
FreshButTotalTeams ==
    [][rugby_api.pc = "queued" /\ rugby_api'.pc = "init"
          => /\ rugby_api'.status.processed = 0
             /\ rugby_api'.status.errors = <<>>
             /\ rugby_api'.status.current_team = ""
             /\ rugby_api'.status.start_time = rugby_api.runs]_vars

\* The part of C25 that holds in scraper_api.py: the whole dictionary is
\* reset by the first statements of scrape_all_background.
ScraperApiFreshAtStart ==
    [][\A w \in Workers :
          worker[w].pc = "queued" /\ worker'[w].pc = "init"
              => /\ scraping_status'.processed = 0
                 /\ scraping_status'.errors = <<>>
                 /\ scraping_status'.total_items = 0
                 /\ scraping_status'.current_item = NoItem
                 /\ scraping_status'.start_time = runs]_vars

(***************************************************************************)
(* The current item, checked under SpecFaults.                             *)
(***************************************************************************)
\* A team or a player of All.Rugby is named in current_item by the step
\* that processes it, whether its fetch succeeds or fails.
CurrentItemNamesUnit ==
    [][\A w \in Workers :
          /\ Steps(w) /\ worker[w].pc = "rugby_team" /\ ghost'[w].event # "none"
                 => scraping_status'.current_item = Item("Team (All.Rugby)", worker[w].i + 1)
          /\ Steps(w) /\ worker[w].pc = "rugby_player" /\ ghost'[w].event # "none"
                 => scraping_status'.current_item
                        = Item("Player (All.Rugby)", worker[w].j + 1)]_vars

\* C26: current_item names a unit of work from the moment the unit is
\* attempted, and when the run has ended abnormally current_item still
\* shows the last unit that was attempted.
C26_CurrentItemSurvivesFailure ==
    /\ CurrentItemNamesUnit
    /\ [][\A w \in Workers :
             worker[w].pc = "finally" /\ worker'[w].pc = "idle"
                 /\ ghost[w].path = "exception"
                 => scraping_status'.current_item = scraping_status.current_item]_vars

(***************************************************************************)
(* Liveness of the stop.  The threads of the process are scheduled by the  *)
(* interpreter, and every fetch, extraction and insert of the model ends:  *)
(* a worker that can take a step eventually takes one.                     *)
(***************************************************************************)
SpecFaultsFair ==
    FaultsInit /\ [][Next]_vars /\ \A w \in Workers : WF_vars(WorkerStep(w))

\* A worker that was stopped eventually leaves scrape_all_background, and
\* the flag is false when it has left.
StoppedWorkerHalts ==
    \A w \in Workers :
        (ghost[w].stopped /\ Executing(w))
            ~> (worker[w].pc = "idle" /\ ~scraping_status.is_running)

\* C27: once a stop request has been accepted the worker eventually halts
\* with is_running false, and until then it starts no unit of work beyond
\* the one in flight when the request arrived.
C27_StopHaltsWithinOneUnit ==
    /\ StoppedWorkerHalts
    /\ [][\A w \in Workers : ghost'[w].after <= 1]_vars

(***************************************************************************)
(* Stop and restart, checked under Spec.                                   *)
(***************************************************************************)
\* C28: a cancellation is never undone.  In the All.Rugby phase, where the
\* worker reads the flag before every team and every player, a worker whose
\* run was stopped starts no further team or player, whatever requests
\* arrive after the stop; in particular when the last request answered
\* is a start that was accepted after that stop.
C28_CancellationNeverUndone ==
    [][\A w \in Workers :
          ghost[w].stopped /\ Steps(w) /\ worker[w].pc \in {"rugby_team", "rugby_player"}
              /\ response.op = "start" /\ response.code = 200
              => ghost'[w].event = "none"]_vars

\* What holds: as long as the flag stays false, the stopped worker starts
\* no team and no player of All.Rugby.
StoppedWhileFlagFalse ==
    [][\A w \in Workers :
          ghost[w].stopped /\ Steps(w) /\ worker[w].pc \in {"rugby_team", "rugby_player"}
              /\ ~scraping_status.is_running
              => ghost'[w].event = "none"]_vars

\* C29: is_running is true at every moment a worker is executing a run
\* that has not been stopped; the finally block of one worker never clears
\* the flag under a run that is still in progress.
C29_FlagTrueWhileRunning ==
    \A w \in Workers :
        Executing(w) /\ worker[w].pc # "finally" /\ ~ghost[w].stopped
            => scraping_status.is_running

\* What holds: where only one worker thread can run (SpecFaults), the flag
\* is true from the reset at the start of the run to the stop or to the
\* finally block.
FlagTrueWithOneWorker ==
    env.slots = 1 =>
        \A w \in Workers :
            Executing(w) /\ worker[w].pc # "finally" /\ ~ghost[w].stopped
                => scraping_status.is_running

(***************************************************************************)
(* The inches of a converted height, checked under SpecHeight.             *)
(***************************************************************************)
\* The callers of the cm_to_feet_inches that compute cm * 0.0328084.
BasketNormalizers ==
    {"basketusa.cm_to_feet_inches", "basketasia.get_roster", "api.get_roster"}

\* C30: the height string cm_to_feet_inches makes of a centimetre value has
\* inches between 0 and 11; 12 inches are never written.
C30_InchesBelowTwelve ==
    height.by \in BasketNormalizers /\ height.text \in HeightTexts /\ height.result # NULL
        => \E t \in FeetInchesTexts : t.inches < InchesPerFoot /\ Text(t) = height.result

\* What holds: the inches are between 0 and 12, and the feet are never
\* moved up: 12 inches are written whenever the remainder rounds to 12;
\* RugbyPass, which truncates, never writes 12.
InchesUpToTwelve ==
    /\ height.by \in BasketNormalizers /\ height.text \in HeightTexts /\ height.result # NULL
           => /\ \E t \in FeetInchesTexts : Text(t) = height.result
              /\ height.result = Format(Feet(height.text.digits),
                                        Inches(height.text.digits), "''")
    /\ height.by = "rugbypass.insert_player" /\ height.text \in HeightTexts
           => \E t \in FeetInchesTexts : t.inches < InchesPerFoot /\ Text(t) = height.result

====
